---- MODULE Spec2Model ----
(***************************************************************************)
(* Preprocessing of Legacy/QFog2-MachO/QFogSource/Headers/                 *)
(* CommonMach-OPrefix.h, directive by directive.                           *)
(*                                                                         *)
(* The state is the preprocessor's: the macro table, the stack of open     *)
(* conditional groups, the headers included so far, the #error messages    *)
(* raised, and the position in the header.  The only input is the          *)
(* definition of _do_debug the translation unit supplies before the        *)
(* header is read.  One action per kind of directive.                      *)
(***************************************************************************)
EXTENDS Integers, Sequences, FiniteSets, TLC

VARIABLES pc, macros, conds, included, errors, halted

vars == <<pc, macros, conds, included, errors, halted>>

(***************************************************************************)
(* Bounds.  _do_debug is either not defined, or defined as an integer of   *)
(* -MaxDebugVal .. MaxDebugVal.                                            *)
(***************************************************************************)
MaxDebugVal == 2

DebugVals == (0 - MaxDebugVal) .. MaxDebugVal

(***************************************************************************)
(* Replacement lists and #if expressions, as syntax trees.                 *)
(***************************************************************************)
Empty == [op |-> "empty"]

Num(n) == [op |-> "num", v |-> n]

Id(s) == [op |-> "id", name |-> s]

Not(a) == [op |-> "not", a |-> a]

Or(a, b) == [op |-> "or", a |-> a, b |-> b]

And(a, b) == [op |-> "and", a |-> a, b |-> b]

Eq(a, b) == [op |-> "eq", a |-> a, b |-> b]

(***************************************************************************)
(* The directives of the header.  Each carries its source line.            *)
(***************************************************************************)
Define(l, n, b) == [line |-> l, kind |-> "define", name |-> n, body |-> b]

Include(l, f) == [line |-> l, kind |-> "include", name |-> f, body |-> Empty]

Ifndef(l, n) == [line |-> l, kind |-> "ifndef", name |-> n, body |-> Empty]

If(l, e) == [line |-> l, kind |-> "if", name |-> "", body |-> e]

Else(l) == [line |-> l, kind |-> "else", name |-> "", body |-> Empty]

Endif(l) == [line |-> l, kind |-> "endif", name |-> "", body |-> Empty]

Error(l, msg) == [line |-> l, kind |-> "error", name |-> msg, body |-> Empty]

\* lines 9-15: Mach-O Target
TargetMacrosBothOn ==
    << Define(9, "PP_Target_Carbon", Num(1)),
       Define(11, "PP_Target_Classic", Id("PP_Target_Carbon")),
       Define(13, "TARGET_API_MAC_CARBON", Id("PP_Target_Carbon")),
       Define(14, "TARGET_API_MAC_OS8", Id("PP_Target_Classic")),
       Define(15, "TARGET_API_MAC_OSX", Id("PP_Target_Carbon")) >>

TargetMacros ==
    << Define(9, "PP_Target_Carbon", Num(1)),
       Define(11, "PP_Target_Classic", Not(Id("PP_Target_Carbon"))),
       Define(13, "TARGET_API_MAC_CARBON", Id("PP_Target_Carbon")),
       Define(14, "TARGET_API_MAC_OS8", Id("PP_Target_Classic")),
       Define(15, "TARGET_API_MAC_OSX", Id("PP_Target_Carbon")) >>

\* lines 21-46: Options, the MSL prefix, the math headers
Options ==
    << Define(21, "PP_Uses_PowerPlant_Namespace", Num(0)),
       Define(22, "PP_Supports_Pascal_Strings", Num(1)),
       Define(23, "PP_StdDialogs_Option", Id("PP_StdDialogs_NavServicesOnly")),
       Define(25, "PP_Uses_Old_Integer_Types", Num(0)),
       Define(26, "PP_Obsolete_AllowTargetSwitch", Num(0)),
       Define(27, "PP_Obsolete_ThrowExceptionCode", Num(0)),
       Define(28, "PP_Warn_Obsolete_Classes", Num(1)),
       Define(30, "PP_Suppress_Notes_221", Num(1)),
       Include(32, "MSLCarbonPrefix.h"),
       Include(34, "cmath"),
       Include(35, "fp.h"),
       Include(36, "complex"),
       Ifndef(40, "FIXEDDECIMAL"),
       Define(41, "FIXEDDECIMAL", Num(1)),
       Endif(42),
       Define(46, "NO_BLOCKMOVE_INLINE", Num(1)) >>

\* line 58: the condition of the second guard
NotZeroOrOneOnlyZero ==
    Not(Or(Eq(Id("_do_debug"), Num(0)), Eq(Id("_do_debug"), Num(0))))

NotZeroOrOneNoNegation ==
    Or(Eq(Id("_do_debug"), Num(0)), Eq(Id("_do_debug"), Num(1)))

NotZeroOrOne ==
    Not(Or(Eq(Id("_do_debug"), Num(0)), Eq(Id("_do_debug"), Num(1))))

\* lines 54-60: the two guards on _do_debug
DoDebugGuards ==
    << Ifndef(54, "_do_debug"),
       Error(55, "_do_debug is not yet #defined"),
       Endif(56),
       If(58, NotZeroOrOne),
       Error(59, "_do_debug is not zero or one"),
       Endif(60) >>

\* lines 65-79: MacOS macros, new PP API, MSL
MacOSMacros ==
    << Define(65, "OLDROUTINENAMES", Num(0)),
       Define(66, "OLDROUTINELOCATIONS", Num(0)),
       Define(67, "SystemSevenOrLater", Num(1)),
       Define(71, "PP_Obsolete_Constants", Num(0)),
       Define(72, "PP_Obsolete_Stream_Creators", Num(0)),
       Define(73, "PP_Obsolete_Array_API", Num(0)),
       If(77, Num(0)),
       Define(78, "__dest_os", Id("__mac_os")),
       Endif(79) >>

\* lines 84-98: the group of #if _do_debug (line 98 is a comment)
DebugBranchNoSpotlight ==
    << Define(84, "Debug_Throw", Empty),
       Define(85, "Debug_Signal", Empty),
       Define(89, "PP_DEBUG", Num(1)),
       Define(92, "PP_QC_SUPPORT", Num(0)),
       Define(93, "PP_DEBUGNEW_SUPPORT", Num(0)) >>

DebugBranchDebugNewOn ==
    << Define(84, "Debug_Throw", Empty),
       Define(85, "Debug_Signal", Empty),
       Define(89, "PP_DEBUG", Num(1)),
       Define(91, "PP_SPOTLIGHT_SUPPORT", Num(1)),
       Define(92, "PP_QC_SUPPORT", Num(0)),
       Define(93, "PP_DEBUGNEW_SUPPORT", Num(1)) >>

DebugBranch ==
    << Define(84, "Debug_Throw", Empty),
       Define(85, "Debug_Signal", Empty),
       Define(89, "PP_DEBUG", Num(1)),
       Define(91, "PP_SPOTLIGHT_SUPPORT", Num(1)),
       Define(92, "PP_QC_SUPPORT", Num(0)),
       Define(93, "PP_DEBUGNEW_SUPPORT", Num(0)) >>

\* lines 105-114: the group of #else
FinalBranchSpotlightOn ==
    << Define(105, "PP_DEBUG", Num(0)),
       Define(109, "PP_SPOTLIGHT_SUPPORT", Num(1)),
       Define(110, "PP_QC_SUPPORT", Num(0)),
       Define(111, "PP_DEBUGNEW_SUPPORT", Num(0)),
       Define(114, "DEBUG_NEW", Id("DEBUG_NEW_OFF")) >>

FinalBranch ==
    << Define(105, "PP_DEBUG", Num(0)),
       Define(109, "PP_SPOTLIGHT_SUPPORT", Num(0)),
       Define(110, "PP_QC_SUPPORT", Num(0)),
       Define(111, "PP_DEBUGNEW_SUPPORT", Num(0)),
       Define(114, "DEBUG_NEW", Id("DEBUG_NEW_OFF")) >>

\* lines 81-119: the debugging macros, then PP_Debug.h
DebugSettings ==
    << If(81, Id("_do_debug")) >> \o DebugBranch \o
    << Else(100) >> \o FinalBranch \o
    << Endif(116),
       Include(119, "PP_Debug.h") >>

\* lines 121-155: turning "new" into "NEW"
DebugNewBlock ==
    << If(121, Id("_do_debug")),
       If(149, And(Id("PP_DEBUGNEW_SUPPORT"),
                   Eq(Id("DEBUG_NEW"), Id("DEBUG_NEW_LEAKS")))),
       Include(150, "new.h"),
       Define(152, "new", Id("NEW")),
       Endif(153),
       Endif(155) >>

\* lines 160-177: the widget headers, my_notation.h, _mac_gui_app
ClassHeaders ==
    << Include(160, "LTable.h"),
       Include(161, "LTableView.h"),
       Include(162, "LTableMultiSelector.h"),
       Include(163, "LTableMultiGeometry.h"),
       Include(164, "LTableMonoGeometry.h"),
       Include(165, "LGroupBox.h"),
       Include(166, "LIconPane.h"),
       Include(167, "PP_DebugMacros.h"),
       Include(169, "LPopupButton.h"),
       Include(170, "UNavServicesDialogs.h"),
       Include(171, "UControlRegistry.h"),
       Include(175, "my_notation.h"),
       Define(177, "_mac_gui_app", Empty) >>

Header ==
    TargetMacros \o Options \o DoDebugGuards \o MacOSMacros \o
    DebugSettings \o DebugNewBlock \o ClassHeaders

(***************************************************************************)
(* The preprocessor.                                                       *)
(***************************************************************************)
Defined(n) == n \in DOMAIN macros

\* The value of a controlling expression: macros are replaced (a macro is
\* not replaced again inside its own replacement), the identifiers that
\* remain are 0.  An empty replacement list has no value.
RECURSIVE Eval(_, _, _)
Eval(e, m, hide) ==
    CASE e.op = "num" -> e.v
      [] e.op = "id"  -> IF e.name \in DOMAIN m /\ e.name \notin hide
                         THEN Eval(m[e.name], m, hide \cup {e.name})
                         ELSE 0
      [] e.op = "not" -> IF Eval(e.a, m, hide) = 0 THEN 1 ELSE 0
      [] e.op = "or"  -> IF Eval(e.a, m, hide) # 0 THEN 1
                         ELSE IF Eval(e.b, m, hide) # 0 THEN 1 ELSE 0
      [] e.op = "and" -> IF Eval(e.a, m, hide) = 0 THEN 0
                         ELSE IF Eval(e.b, m, hide) # 0 THEN 1 ELSE 0
      [] e.op = "eq"  -> IF Eval(e.a, m, hide) = Eval(e.b, m, hide)
                         THEN 1 ELSE 0

Value(n) == Eval(Id(n), macros, {})

\* The group being read is processed iff every enclosing group is.
Live == IF conds = << >> THEN TRUE ELSE conds[Len(conds)].live

Cur == Header[pc]

AtDirective(k) == ~halted /\ pc <= Len(Header) /\ Cur.kind = k

Push(c) == Append(conds, [live |-> Live /\ c, seen |-> ~Live \/ c])

Pop == SubSeq(conds, 1, Len(conds) - 1)

WithMacro(m, n, b) == [k \in DOMAIN m \cup {n} |-> IF k = n THEN b ELSE m[k]]

\* The translation unit's setting of _do_debug before the header is read.
Init ==
    /\ pc = 1
    /\ \/ macros = << >>
       \/ \E v \in DebugVals : macros = WithMacro(<< >>, "_do_debug", Num(v))
    /\ conds = << >>
    /\ included = {}
    /\ errors = {}
    /\ halted = FALSE

DoDefine ==
    /\ AtDirective("define")
    /\ macros' = IF Live THEN WithMacro(macros, Cur.name, Cur.body) ELSE macros
    /\ pc' = pc + 1
    /\ UNCHANGED <<conds, included, errors, halted>>

\* The headers included are not part of the repository and are taken to
\* leave the macros of this header alone, but for fp.h, which by the
\* comment of lines 37-39 may or may not define FIXEDDECIMAL.
DoInclude ==
    /\ AtDirective("include")
    /\ included' = IF Live THEN included \cup {Cur.name} ELSE included
    /\ \/ UNCHANGED macros
       \/ /\ Live
          /\ Cur.name = "fp.h"
          /\ macros' = WithMacro(macros, "FIXEDDECIMAL", Num(1))
    /\ pc' = pc + 1
    /\ UNCHANGED <<conds, errors, halted>>

DoIfndef ==
    /\ AtDirective("ifndef")
    /\ conds' = Push(~Defined(Cur.name))
    /\ pc' = pc + 1
    /\ UNCHANGED <<macros, included, errors, halted>>

DoIf ==
    /\ AtDirective("if")
    /\ conds' = IF Live THEN Push(Eval(Cur.body, macros, {}) # 0)
                        ELSE Push(FALSE)
    /\ pc' = pc + 1
    /\ UNCHANGED <<macros, included, errors, halted>>

DoElse ==
    /\ AtDirective("else")
    /\ conds' = [conds EXCEPT ![Len(conds)] =
                    [live |-> ~conds[Len(conds)].seen, seen |-> TRUE]]
    /\ pc' = pc + 1
    /\ UNCHANGED <<macros, included, errors, halted>>

DoEndif ==
    /\ AtDirective("endif")
    /\ conds' = Pop
    /\ pc' = pc + 1
    /\ UNCHANGED <<macros, included, errors, halted>>

\* #error in a group that is processed raises its message.  Whether the
\* translation stops there or goes on to report further errors is up to the
\* compiler: both are allowed.
DoError ==
    /\ AtDirective("error")
    /\ pc' = pc + 1
    /\ IF Live
       THEN /\ errors' = errors \cup {Cur.name}
            /\ halted' \in BOOLEAN
       ELSE UNCHANGED <<errors, halted>>
    /\ UNCHANGED <<macros, conds, included>>

Next ==
    \/ DoDefine
    \/ DoInclude
    \/ DoIfndef
    \/ DoIf
    \/ DoElse
    \/ DoEndif
    \/ DoError

Spec == Init /\ [][Next]_vars

(***************************************************************************)
(* Positions and configurations.                                           *)
(***************************************************************************)
\* Every directive up to source line l has been read.
Past(l) == pc > Len(Header) \/ Header[pc].line > l

AtEnd == pc > Len(Header)

DoDebugIs(v) == Defined("_do_debug") /\ macros["_do_debug"] = Num(v)

Accepted == DoDebugIs(0) \/ DoDebugIs(1)

DefinedAs(n, b) == Defined(n) /\ macros[n] = b

NotYetDefined == "_do_debug is not yet #defined"

NotZeroOrOneMsg == "_do_debug is not zero or one"

(***************************************************************************)
(* C1: with _do_debug defined as 0 or as 1, reading the header from its    *)
(* first line to its last raises neither #error, and the translation is    *)
(* never stopped.                                                          *)
(***************************************************************************)
C1_NoErrorWhenAccepted == Accepted => errors = {} /\ ~halted

C1_Witness == DoDebugIs(1) /\ AtEnd /\ errors = {} /\ conds = << >>

(***************************************************************************)
(* C2: a configuration where _do_debug is not defined has raised           *)
(* "_do_debug is not yet #defined" once line 55 is behind; one where it is *)
(* defined as an integer other than 0 and 1 has raised "_do_debug is not   *)
(* zero or one" once line 59 is behind; neither gets past line 60, to the  *)
(* #if _do_debug of line 81, without an #error raised.                     *)
(***************************************************************************)
C2_RejectedRaisesError ==
    ~Accepted =>
        /\ ~Defined("_do_debug") /\ Past(55) => NotYetDefined \in errors
        /\ Defined("_do_debug") /\ Past(59) => NotZeroOrOneMsg \in errors
        /\ Past(60) => errors # {}

C2_Witness ==
    /\ ~Accepted
    /\ Defined("_do_debug")
    /\ Past(81)
    /\ ~halted
    /\ errors = {NotZeroOrOneMsg}

(***************************************************************************)
(* C3: with _do_debug 0 or 1, at the end of the header PP_Target_Carbon,   *)
(* TARGET_API_MAC_OSX, PP_DEBUG, PP_SPOTLIGHT_SUPPORT and _mac_gui_app are *)
(* all defined.                                                            *)
(***************************************************************************)
C3_ContractSymbolsDefined ==
    Accepted /\ AtEnd =>
        \A n \in {"PP_Target_Carbon", "TARGET_API_MAC_OSX", "PP_DEBUG",
                  "PP_SPOTLIGHT_SUPPORT", "_mac_gui_app"} : Defined(n)

C3_Witness == DoDebugIs(0) /\ AtEnd /\ Defined("_mac_gui_app")

(***************************************************************************)
(* C4: with _do_debug 0, once the #endif of line 116 is behind, PP_DEBUG,  *)
(* PP_SPOTLIGHT_SUPPORT, PP_QC_SUPPORT and PP_DEBUGNEW_SUPPORT are defined *)
(* as 0, DEBUG_NEW is defined as DEBUG_NEW_OFF, and Debug_Throw and        *)
(* Debug_Signal are not defined.                                           *)
(***************************************************************************)
C4_FinalBuildAllOff ==
    DoDebugIs(0) /\ Past(116) =>
        /\ \A n \in {"PP_DEBUG", "PP_SPOTLIGHT_SUPPORT", "PP_QC_SUPPORT",
                     "PP_DEBUGNEW_SUPPORT"} : DefinedAs(n, Num(0))
        /\ DefinedAs("DEBUG_NEW", Id("DEBUG_NEW_OFF"))
        /\ ~Defined("Debug_Throw")
        /\ ~Defined("Debug_Signal")

C4_Witness ==
    /\ DoDebugIs(0)
    /\ Past(116)
    /\ ~AtEnd
    /\ Header[pc].line = 119
    /\ Defined("DEBUG_NEW")

(***************************************************************************)
(* C5: with _do_debug 1, once the debug group (lines 82-99) is behind,     *)
(* DEBUG_NEW is defined, as DEBUG_NEW_LEAKS.                               *)
(***************************************************************************)
C5_DebugNewFullStrength ==
    DoDebugIs(1) /\ Past(99) => DefinedAs("DEBUG_NEW", Id("DEBUG_NEW_LEAKS"))

(***************************************************************************)
(* C6: with _do_debug 0 or 1, once the #endif of line 116 is behind,       *)
(* PP_DEBUG and PP_SPOTLIGHT_SUPPORT are defined and have the value of     *)
(* _do_debug, Debug_Throw and Debug_Signal are defined iff _do_debug is 1, *)
(* and PP_QC_SUPPORT and PP_DEBUGNEW_SUPPORT are defined as 0.             *)
(***************************************************************************)
C6_DebugFlagsFollowDoDebug ==
    Accepted /\ Past(116) =>
        /\ Defined("PP_DEBUG")
        /\ Value("PP_DEBUG") = Value("_do_debug")
        /\ Defined("PP_SPOTLIGHT_SUPPORT")
        /\ Value("PP_SPOTLIGHT_SUPPORT") = Value("_do_debug")
        /\ Defined("Debug_Throw") <=> Value("_do_debug") = 1
        /\ Defined("Debug_Signal") <=> Value("_do_debug") = 1
        /\ DefinedAs("PP_QC_SUPPORT", Num(0))
        /\ DefinedAs("PP_DEBUGNEW_SUPPORT", Num(0))

C6_Witness ==
    /\ DoDebugIs(1)
    /\ Past(116)
    /\ Value("PP_DEBUG") = 1
    /\ Defined("Debug_Signal")

(***************************************************************************)
(* C7: once line 15 is behind, whatever _do_debug is, PP_Target_Carbon,    *)
(* TARGET_API_MAC_CARBON and TARGET_API_MAC_OSX evaluate to 1 and          *)
(* PP_Target_Classic and TARGET_API_MAC_OS8 to 0: exactly one of Carbon    *)
(* and Classic is enabled.                                                 *)
(***************************************************************************)
C7_ExactlyOneTarget ==
    Past(15) =>
        /\ \A n \in {"PP_Target_Carbon", "TARGET_API_MAC_CARBON",
                     "TARGET_API_MAC_OSX"} : Defined(n) /\ Value(n) = 1
        /\ \A n \in {"PP_Target_Classic", "TARGET_API_MAC_OS8"} :
               Defined(n) /\ Value(n) = 0
        /\ (Value("PP_Target_Carbon") # 0) # (Value("PP_Target_Classic") # 0)
        /\ (Value("TARGET_API_MAC_CARBON") # 0)
               # (Value("TARGET_API_MAC_OS8") # 0)

C7_Witness ==
    /\ DoDebugIs(1)
    /\ AtEnd
    /\ Value("TARGET_API_MAC_OS8") = 0
    /\ Value("TARGET_API_MAC_CARBON") = 1

(***************************************************************************)
(* C8: with _do_debug 0 or 1, "new" is never defined as a macro and        *)
(* <new.h> is never included, and PP_DEBUGNEW_SUPPORT is 0 once the #endif *)
(* of line 116 is behind, whichever group was read.                        *)
(***************************************************************************)
C8_NewNeverRedefined ==
    Accepted =>
        /\ ~Defined("new")
        /\ "new.h" \notin included
        /\ Past(116) => Defined("PP_DEBUGNEW_SUPPORT")
                        /\ Value("PP_DEBUGNEW_SUPPORT") = 0

C8_Witness ==
    /\ DoDebugIs(1)
    /\ Past(153)
    /\ "PP_Debug.h" \in included
    /\ ~Defined("new")

====
